---- MODULE Spec2Model ----
(***************************************************************************)
(* Event-binding generation of ethers-contract-abigen                      *)
(* (src/ethers-contract/ethers-contract-abigen/src/contract/events.rs).    *)
(*                                                                         *)
(* Identifiers and signatures are sequences of one-character strings, so   *)
(* that case conversion, concatenation and lexicographic comparison are    *)
(* computed rather than assumed.  An Option is a sequence of length 0 or 1 *)
(* (<<>> is None, <<x>> is Some(x)).  A TokenStream is a record holding    *)
(* the parts the quote! template splices in.                               *)
(***************************************************************************)
EXTENDS Integers, Sequences, FiniteSets, TLC

VARIABLES
    abi_events,      \* Context.abi.events : BTreeMap<String, Vec<Event>>
    event_aliases,   \* Context.event_aliases : BTreeMap<String, Ident>
    contract_ident,  \* Context.contract_ident
    decl,            \* Option<Result<TokenStream>> returned by events_declaration
    methods,         \* Option<Result<TokenStream>> returned by event_methods
    log,             \* Option<RawLog> handed to the generated decode_log
    attempts,        \* variant decoders decode_log has called so far, in call order
    decoded,         \* Option<Result<Self, Error>> returned by decode_log
    event,           \* the Event handed to expand_event directly
    expanded,        \* Option<Result<TokenStream>> returned by expand_event
    data_struct,     \* Option<TokenStream> returned by expand_data_struct
    data_tuple       \* Option<TokenStream> returned by expand_data_tuple

vars == <<abi_events, event_aliases, contract_ident, decl, methods, log, attempts,
          decoded, event, expanded, data_struct, data_tuple>>

-----------------------------------------------------------------------------
(* Characters and strings *)

LowerChars == <<"a","b","c","d","e","f","g","h","i","j","k","l","m",
                "n","o","p","q","r","s","t","u","v","w","x","y","z">>

UpperChars == <<"A","B","C","D","E","F","G","H","I","J","K","L","M",
                "N","O","P","Q","R","S","T","U","V","W","X","Y","Z">>

DigitChars == <<"0","1","2","3","4","5","6","7","8","9">>

\* the characters in use, in ascending byte order
Ascii == <<"$","(",")",",">> \o DigitChars \o UpperChars \o <<"_">> \o LowerChars

Range(s) == {s[i] : i \in 1..Len(s)}

IndexOf(s, c) == CHOOSE i \in 1..Len(s) : s[i] = c

\* the position of every character in byte order
AsciiOrd == [c \in Range(Ascii) |-> IndexOf(Ascii, c)]

Ord(c) == AsciiOrd[c]

LowerSet == Range(LowerChars)

UpperSet == Range(UpperChars)

DigitSet == Range(DigitChars)

IsLower(c) == c \in LowerSet

IsUpper(c) == c \in UpperSet

IsNumeric(c) == c \in DigitSet

IsNotAlphanumeric(c) == ~(IsLower(c) \/ IsUpper(c) \/ IsNumeric(c))

ToAsciiLowercase(c) == IF IsUpper(c) THEN LowerChars[IndexOf(UpperChars, c)] ELSE c

ToAsciiUppercase(c) == IF IsLower(c) THEN UpperChars[IndexOf(LowerChars, c)] ELSE c

\* String's Ord: byte-wise lexicographic order
StrLess(s, t) ==
    \E k \in 1..(Len(s) + 1) :
        /\ \A j \in 1..(k - 1) : j <= Len(t) /\ s[j] = t[j]
        /\ k <= Len(t)
        /\ (k > Len(s) \/ Ord(s[k]) < Ord(t[k]))

StrLeq(s, t) == s = t \/ StrLess(s, t)

\* str::trim_end_matches(is_not_alphanumeric)
RECURSIVE TrimRight(_)
TrimRight(s) ==
    IF Len(s) > 0 /\ IsNotAlphanumeric(s[Len(s)])
    THEN TrimRight(SubSeq(s, 1, Len(s) - 1))
    ELSE s

\* Inflector's camel-like conversion with the PascalCase options
\* (new_word: true, first_word: false, last_char: ' ', no separator, not inverted)
RECURSIVE CamelLike(_, _, _)
CamelLike(s, i, st) ==
    IF i > Len(s) THEN st.result
    ELSE LET c == s[i] IN
         IF IsNotAlphanumeric(c) /\ st.found_real_char
         THEN CamelLike(s, i + 1, [st EXCEPT !.new_word = TRUE])
         ELSE IF ~st.found_real_char /\ IsNotAlphanumeric(c)
         THEN CamelLike(s, i + 1, st)
         ELSE IF IsNumeric(c)
         THEN CamelLike(s, i + 1, [st EXCEPT !.found_real_char = TRUE,
                                             !.new_word = TRUE,
                                             !.result = Append(@, c)])
         ELSE IF st.new_word \/ (IsLower(st.last_char) /\ IsUpper(c))
         THEN CamelLike(s, i + 1, [st EXCEPT !.found_real_char = TRUE,
                                             !.new_word = FALSE,
                                             !.result = Append(@, ToAsciiUppercase(c))])
         ELSE CamelLike(s, i + 1, [st EXCEPT !.found_real_char = TRUE,
                                             !.last_char = c,
                                             !.result = Append(@, ToAsciiLowercase(c))])

ToPascalCase(s) ==
    CamelLike(TrimRight(s), 1,
              [new_word |-> TRUE, last_char |-> " ", found_real_char |-> FALSE,
               result |-> <<>>])

\* Inflector's snake-like conversion with separator '_' and lower case
RECURSIVE SnakeLike(_, _, _, _)
SnakeLike(s, i, first_character, result) ==
    IF i > Len(TrimRight(s)) THEN result
    ELSE LET c == s[i]
             next_lower == i + 1 <= Len(s) /\ IsLower(s[i + 1])
             prev_lower == i - 1 >= 1 /\ IsLower(s[i - 1])
         IN
         IF IsNotAlphanumeric(c)
         THEN IF ~first_character
              THEN SnakeLike(s, i + 1, TRUE, Append(result, "_"))
              ELSE SnakeLike(s, i + 1, first_character, result)
         ELSE IF ~first_character /\ IsUpper(c) /\ (next_lower \/ prev_lower)
         THEN SnakeLike(s, i + 1, FALSE, result \o <<"_", ToAsciiLowercase(c)>>)
         ELSE SnakeLike(s, i + 1, FALSE, Append(result, ToAsciiLowercase(c)))

ToSnakeCase(s) == SnakeLike(s, 1, TRUE, <<>>)

-----------------------------------------------------------------------------
(* ABI events *)

Address == "Address"
Uint256 == "Uint256"
Bool == "Bool"
Uint512 == "Uint512"

\* ParamType's canonical name, as Writer::write prints it
KindName(kind) ==
    CASE kind = Address -> <<"a","d","d","r","e","s","s">>
      [] kind = Uint256 -> <<"u","i","n","t","2","5","6">>
      [] kind = Bool    -> <<"b","o","o","l">>
      [] kind = Uint512 -> <<"u","i","n","t","5","1","2">>

RECURSIVE Join(_, _)
Join(strs, sep) ==
    IF Len(strs) = 0 THEN <<>>
    ELSE IF Len(strs) = 1 THEN strs[1]
    ELSE strs[1] \o sep \o Join(Tail(strs), sep)

\* EventExt::abi_signature: name(type,type,...)
AbiSignature(e) ==
    e.name \o <<"(">> \o Join([i \in 1..Len(e.inputs) |-> KindName(e.inputs[i].kind)], <<",">>)
           \o <<")">>

\* BTreeMap::get(..).cloned()
MapGet(m, k) == IF k \in DOMAIN m THEN <<m[k]>> ELSE <<>>

\* the keys of a BTreeMap<String, _> in iteration order
RECURSIVE SortedKeys(_)
SortedKeys(S) ==
    IF S = {} THEN <<>>
    ELSE LET least == CHOOSE k \in S : \A o \in S : StrLeq(k, o)
         IN <<least>> \o SortedKeys(S \ {least})

RECURSIVE Flatten(_)
Flatten(vecs) == IF Len(vecs) = 0 THEN <<>> ELSE vecs[1] \o Flatten(Tail(vecs))

\* the first of a sequence of events in signature order
RECURSIVE SortBySignature(_)
SortBySignature(es) ==
    IF Len(es) = 0 THEN <<>>
    ELSE LET i == CHOOSE k \in 1..Len(es) :
                    \A j \in 1..Len(es) : StrLeq(AbiSignature(es[k]), AbiSignature(es[j]))
         IN <<es[i]>> \o SortBySignature(SubSeq(es, 1, i - 1) \o SubSeq(es, i + 1, Len(es)))

\* mutant: the events are iterated in the order of their signatures
ValuesFlattenBySignature(m) ==
    LET keys == SortedKeys(DOMAIN m)
    IN SortBySignature(Flatten([i \in 1..Len(keys) |-> m[keys[i]]]))

\* BTreeMap::values().flatten()
ValuesFlatten(m) ==
    LET keys == SortedKeys(DOMAIN m)
    IN Flatten([i \in 1..Len(keys) |-> m[keys[i]]])

-----------------------------------------------------------------------------
(* Results *)

Ok(v) == [ok |-> TRUE, val |-> v]

Err(e) == [ok |-> FALSE, err |-> e]

\* Iterator<Item = Result<T>>::collect::<Result<Vec<T>>>(): the first error, else all values
CollectResult(rs) ==
    IF \E i \in 1..Len(rs) : ~rs[i].ok
    THEN rs[CHOOSE i \in 1..Len(rs) : ~rs[i].ok /\ \A j \in 1..(i - 1) : rs[j].ok]
    ELSE Ok([i \in 1..Len(rs) |-> rs[i].val])

-----------------------------------------------------------------------------
(* Type Mapper: types::expand_event_inputs and what it calls *)

\* types::expand: the Rust type of a Solidity type, or the error of an unsupported one
ExpandType(kind) ==
    CASE kind = Address -> Ok("::ethers_core::types::Address")
      [] kind = Uint256 -> Ok("::ethers_core::types::U256")
      [] kind = Bool    -> Ok("bool")
      [] kind = Uint512 -> Err(<<"unsupported solidity type", KindName(kind)>>)

\* util::expand_input_name: an unnamed input is called p<index>
ExpandInputName(index, name) ==
    IF name = <<>> THEN <<"p", DigitChars[index + 1]>> ELSE ToSnakeCase(name)

\* one (name, type, indexed) triple per input, in declared order
ExpandEventInputs(e) ==
    CollectResult([i \in 1..Len(e.inputs) |->
        LET ty == ExpandType(e.inputs[i].kind)
        IN IF ty.ok
           THEN Ok(<<ExpandInputName(i - 1, e.inputs[i].name), ty.val, e.inputs[i].indexed>>)
           ELSE ty])

-----------------------------------------------------------------------------
(* events.rs *)

FilterSuffix == <<"F","i","l","t","e","r">>

FilterFnSuffix == <<"_","f","i","l","t","e","r">>

EventsSuffix == <<"E","v","e","n","t","s">>

EventStructName(event_name, alias) ==
    IF alias # <<>>
    THEN ToPascalCase(alias[1]) \o FilterSuffix
    ELSE ToPascalCase(event_name) \o FilterSuffix

ExpandDataStruct(name, ps) ==
    [kind   |-> "struct",
     name   |-> name,
     fields |-> [i \in 1..Len(ps) |->
                   IF ps[i][3]
                   THEN [indexed |-> TRUE, name |-> <<ps[i][1]>>, ty |-> ps[i][2]]
                   ELSE [indexed |-> FALSE, name |-> <<ps[i][1]>>, ty |-> ps[i][2]]]]

\* mutant: the indexed attribute is never written
ExpandDataTupleNoIndexed(name, ps) ==
    [kind   |-> "tuple",
     name   |-> name,
     fields |-> [i \in 1..Len(ps) |-> [indexed |-> FALSE, name |-> <<>>, ty |-> ps[i][2]]]]

ExpandDataTuple(name, ps) ==
    [kind   |-> "tuple",
     name   |-> name,
     fields |-> [i \in 1..Len(ps) |->
                   IF ps[i][3]
                   THEN [indexed |-> TRUE, name |-> <<>>, ty |-> ps[i][2]]
                   ELSE [indexed |-> FALSE, name |-> <<>>, ty |-> ps[i][2]]]]

\* mutant: a tuple as soon as one input is unnamed (any instead of all)
ExpandEventAnyAnonymous(cx, e) ==
    LET event_name == EventStructName(e.name, MapGet(cx.event_aliases, AbiSignature(e)))
        ps == ExpandEventInputs(e)
        any_anonymous_fields == \E i \in 1..Len(e.inputs) : e.inputs[i].name = <<>>
    IN IF ~ps.ok THEN ps
       ELSE Ok([name |-> e.name,
                abi  |-> AbiSignature(e),
                data_type_definition |->
                    IF any_anonymous_fields \/ Len(e.inputs) = 0
                    THEN ExpandDataTuple(event_name, ps.val)
                    ELSE ExpandDataStruct(event_name, ps.val)])

ExpandEvent(cx, e) ==
    LET sig == MapGet(cx.event_aliases, AbiSignature(e))
        abi_signature == AbiSignature(e)
        event_abi_name == e.name
        event_name == EventStructName(e.name, sig)
        ps == ExpandEventInputs(e)
        all_anonymous_fields == \A i \in 1..Len(e.inputs) : e.inputs[i].name = <<>>
    IN IF ~ps.ok THEN ps
       ELSE Ok([name |-> event_abi_name,
                abi  |-> abi_signature,
                data_type_definition |->
                    IF all_anonymous_fields
                    THEN ExpandDataTuple(event_name, ps.val)
                    ELSE ExpandDataStruct(event_name, ps.val)])

ExpandEventEnumName(cx) == cx.contract_ident \o EventsSuffix

\* mutant: one variant per event name, its first overload
ExpandEventsEnumPerName(cx) ==
    LET keys == SortedKeys(DOMAIN cx.abi_events)
        variants == [i \in 1..Len(keys) |->
                       EventStructName(cx.abi_events[keys[i]][1].name,
                                       MapGet(cx.event_aliases,
                                              AbiSignature(cx.abi_events[keys[i]][1])))]
    IN [enum_name |-> ExpandEventEnumName(cx), variants |-> variants]

ExpandEventsEnum(cx) ==
    LET events == ValuesFlatten(cx.abi_events)
        variants == [i \in 1..Len(events) |->
                       EventStructName(events[i].name,
                                       MapGet(cx.event_aliases, AbiSignature(events[i])))]
    IN [enum_name |-> ExpandEventEnumName(cx), variants |-> variants]

\* mutant: the enum is decided on the number of event names (sorted_events.len() > 1)
EventsDeclarationCountNames(cx) ==
    LET sorted_events == ValuesFlatten(cx.abi_events)
        data_types == CollectResult([i \in 1..Len(sorted_events) |->
                                       ExpandEvent(cx, sorted_events[i])])
        events_enum_decl == IF Cardinality(DOMAIN cx.abi_events) > 1
                            THEN <<ExpandEventsEnum(cx)>> ELSE <<>>
    IN IF ~data_types.ok THEN data_types
       ELSE Ok([data_types |-> data_types.val, events_enum_decl |-> events_enum_decl])

\* mutant: an event whose expansion fails is left out (filter_map(Result::ok))
EventsDeclarationSkipErrors(cx) ==
    LET sorted_events == ValuesFlatten(cx.abi_events)
        results == [i \in 1..Len(sorted_events) |-> ExpandEvent(cx, sorted_events[i])]
        data_types == SelectSeq(results, LAMBDA r : r.ok)
        events_enum_decl == IF Len(sorted_events) > 1 THEN <<ExpandEventsEnum(cx)>> ELSE <<>>
    IN Ok([data_types |-> [i \in 1..Len(data_types) |-> data_types[i].val],
           events_enum_decl |-> events_enum_decl])

EventsDeclaration(cx) ==
    LET sorted_events == ValuesFlatten(cx.abi_events)
        data_types == CollectResult([i \in 1..Len(sorted_events) |->
                                       ExpandEvent(cx, sorted_events[i])])
        events_enum_decl == IF Len(sorted_events) > 1 THEN <<ExpandEventsEnum(cx)>> ELSE <<>>
    IN IF ~data_types.ok THEN data_types
       ELSE Ok([data_types |-> data_types.val, events_enum_decl |-> events_enum_decl])

\* mutant: events() is typed to the enum whenever there is an event
ExpandEventsMethodAlwaysEnum(cx) ==
    LET sorted_events == ValuesFlatten(cx.abi_events)
    IN IF Len(sorted_events) >= 1
       THEN <<[fn_name |-> <<"e","v","e","n","t","s">>, ty |-> ExpandEventEnumName(cx)]>>
       ELSE <<>>

ExpandEventsMethod(cx) ==
    LET sorted_events == ValuesFlatten(cx.abi_events)
    IN IF Len(sorted_events) >= 1
       THEN LET first == sorted_events[1]
                ty == IF Len(sorted_events) >= 2
                      THEN ExpandEventEnumName(cx)
                      ELSE EventStructName(first.name,
                                           MapGet(cx.event_aliases, AbiSignature(first)))
            IN <<[fn_name |-> <<"e","v","e","n","t","s">>, ty |-> ty]>>
       ELSE <<>>

\* mutant: the accessor is named after the event even when an alias is registered
ExpandFilterNameOnly(cx, e) ==
    [doc     |-> e.name,
     fn_name |-> ToSnakeCase(e.name) \o FilterFnSuffix,
     ty      |-> EventStructName(e.name, MapGet(cx.event_aliases, AbiSignature(e)))]

ExpandFilter(cx, e) ==
    LET name == e.name
        alias == MapGet(cx.event_aliases, AbiSignature(e))
        function_name == IF alias # <<>>
                         THEN ToSnakeCase(alias[1]) \o FilterFnSuffix
                         ELSE ToSnakeCase(e.name) \o FilterFnSuffix
        struct_name == EventStructName(name, alias)
    IN [doc |-> name, fn_name |-> function_name, ty |-> struct_name]

EventMethods(cx) ==
    LET sorted_events == ValuesFlatten(cx.abi_events)
        filter_methods == [i \in 1..Len(sorted_events) |-> ExpandFilter(cx, sorted_events[i])]
        events_method == ExpandEventsMethod(cx)
    IN Ok([filter_methods |-> filter_methods, events_method |-> events_method])

\* the Context fields the generation reads
Cx == [abi_events |-> abi_events, event_aliases |-> event_aliases,
       contract_ident |-> contract_ident]

-----------------------------------------------------------------------------
(* Inputs *)

MaxEvents == 3

MaxOverloads == 2

MaxAliases == 2

MaxParams == 2

Transfer == <<"T","r","a","n","s","f","e","r">>

Approval == <<"A","p","p","r","o","v","a","l">>

Foo == <<"F","o","o">>

TransferEvent == <<"T","r","a","n","s","f","e","r","E","v","e","n","t">>

TestToken == <<"T","e","s","t","T","o","k","e","n">>

EventNames == {Transfer, Approval, Foo}

AliasIdents == {TransferEvent, Approval}

EventParam(name, kind, indexed) == [name |-> name, kind |-> kind, indexed |-> indexed]

\* the input lists of the events of a table
InputPool ==
    { <<EventParam(<<"f","r","o","m">>, Address, TRUE), EventParam(<<"t","o">>, Address, TRUE),
        EventParam(<<"a","m","o","u","n","t">>, Uint256, FALSE)>>,
      <<EventParam(<<>>, Uint256, TRUE)>>,
      <<EventParam(<<"a">>, Bool, FALSE), EventParam(<<>>, Uint512, FALSE)>> }

SeqsUpTo(S, n) == UNION {[1..k -> S] : k \in 0..n}

Injective(f) == \A i, j \in DOMAIN f : f[i] = f[j] => i = j

\* the input lists of the overloads of one name, in the order the ABI declares them
OverloadInputs == {q \in SeqsUpTo(InputPool, MaxOverloads) : Injective(q)}

RECURSIVE SumLen(_, _)
SumLen(m, S) ==
    IF S = {} THEN 0
    ELSE LET k == CHOOSE x \in S : TRUE IN Len(m[k]) + SumLen(m, S \ {k})

\* Abi.events: every name that has events is a key and holds the events of that name
EventTables ==
    { [n \in {k \in EventNames : Len(ins[k]) > 0} |->
         [i \in 1..Len(ins[n]) |-> [name |-> n, inputs |-> ins[n][i], anonymous |-> FALSE]]] :
      ins \in {f \in [EventNames -> OverloadInputs] : SumLen(f, EventNames) <= MaxEvents} }

Signatures(m) == {AbiSignature(e) : e \in Range(ValuesFlatten(m))}

AliasTables(sigs) ==
    UNION { [keys -> AliasIdents] : keys \in {k \in SUBSET sigs : Cardinality(k) <= MaxAliases} }

NoEvent == [name |-> Foo, inputs |-> <<>>, anonymous |-> FALSE]

ParamNames == {<<>>, <<"a">>}

ParamKinds == {Address, Uint256, Uint512}

EventParams == {EventParam(n, k, x) : n \in ParamNames, k \in ParamKinds, x \in BOOLEAN}

\* the events handed to expand_event one at a time
Events ==
    {[name |-> n, inputs |-> ins, anonymous |-> FALSE] :
        n \in {Transfer, Foo}, ins \in SeqsUpTo(EventParams, MaxParams)}

\* a signature of the same name that no event of Events has
ForeignSignature(e) == e.name \o <<"(">> \o KindName(Bool) \o <<")">>

-----------------------------------------------------------------------------
(* Generation of a contract's event bindings *)

Init ==
    /\ abi_events \in EventTables
    /\ event_aliases \in AliasTables(Signatures(abi_events))
    /\ contract_ident = TestToken
    /\ decl = <<>>
    /\ methods = <<>>
    /\ log = <<>>
    /\ attempts = <<>>
    /\ decoded = <<>>
    /\ event = NoEvent
    /\ expanded = <<>>
    /\ data_struct = <<>>
    /\ data_tuple = <<>>

CallEventsDeclaration ==
    /\ decl = <<>>
    /\ decl' = <<EventsDeclaration(Cx)>>
    /\ UNCHANGED <<abi_events, event_aliases, contract_ident, methods, log, attempts, decoded,
                   event, expanded, data_struct, data_tuple>>

CallEventMethods ==
    /\ methods = <<>>
    /\ methods' = <<EventMethods(Cx)>>
    /\ UNCHANGED <<abi_events, event_aliases, contract_ident, decl, log, attempts, decoded,
                   event, expanded, data_struct, data_tuple>>

Next ==
    \/ CallEventsDeclaration
    \/ CallEventMethods

Spec == Init /\ [][Next]_vars

-----------------------------------------------------------------------------
(* The generated enum's decode_log *)

InitDecode ==
    /\ abi_events \in EventTables
    /\ event_aliases = <<>>
    /\ contract_ident = TestToken
    /\ decl = <<>>
    /\ methods = <<>>
    /\ log = <<>>
    /\ attempts = <<>>
    /\ decoded = <<>>
    /\ event = NoEvent
    /\ expanded = <<>>
    /\ data_struct = <<>>
    /\ data_tuple = <<>>

\* the variants of the emitted enum, <<>> while none is emitted
Variants ==
    IF decl # <<>> /\ decl[1].ok /\ decl[1].val.events_enum_decl # <<>>
    THEN decl[1].val.events_enum_decl[1].variants
    ELSE <<>>

\* A raw log reaches the generated enum's decode_log.  The log is the set of the
\* generated event types whose own decode_log accepts it.
ReceiveLog ==
    /\ Variants # <<>>
    /\ log = <<>>
    /\ \E accepted \in SUBSET Range(Variants) : log' = <<accepted>>
    /\ UNCHANGED <<abi_events, event_aliases, contract_ident, decl, methods, attempts, decoded,
                   event, expanded, data_struct, data_tuple>>

\* mutant: a successful decoder does not return, a later success overwrites it
DecodeLogAttemptNoReturn ==
    /\ log # <<>>
    /\ Len(attempts) < Len(Variants)
    /\ decoded # <<>> => decoded[1].ok
    /\ LET i == Len(attempts) + 1 IN
         /\ attempts' = Append(attempts, i)
         /\ decoded' = IF Variants[i] \in log[1]
                       THEN <<Ok([variant |-> i, ty |-> Variants[i]])>>
                       ELSE decoded
    /\ UNCHANGED <<abi_events, event_aliases, contract_ident, decl, methods, log,
                   event, expanded, data_struct, data_tuple>>

\* one `if let Ok(decoded) = #variants::decode_log(log) { return Ok(..) }`
DecodeLogAttempt ==
    /\ log # <<>>
    /\ decoded = <<>>
    /\ Len(attempts) < Len(Variants)
    /\ LET i == Len(attempts) + 1 IN
         /\ attempts' = Append(attempts, i)
         /\ decoded' = IF Variants[i] \in log[1]
                       THEN <<Ok([variant |-> i, ty |-> Variants[i]])>>
                       ELSE <<>>
    /\ UNCHANGED <<abi_events, event_aliases, contract_ident, decl, methods, log,
                   event, expanded, data_struct, data_tuple>>

\* `Err(Error::InvalidData)` after the last `if let`
DecodeLogInvalidData ==
    /\ log # <<>>
    /\ decoded = <<>>
    /\ Len(attempts) = Len(Variants)
    /\ decoded' = <<Err("InvalidData")>>
    /\ UNCHANGED <<abi_events, event_aliases, contract_ident, decl, methods, log, attempts,
                   event, expanded, data_struct, data_tuple>>

NextDecode ==
    \/ CallEventsDeclaration
    \/ ReceiveLog
    \/ DecodeLogAttempt
    \/ DecodeLogInvalidData

SpecDecode == InitDecode /\ [][NextDecode]_vars

-----------------------------------------------------------------------------
(* Expansion of one event *)

InitEvent ==
    /\ abi_events = <<>>
    /\ event \in Events
    /\ event_aliases \in
         {<<>>} \cup UNION {[{sig} -> {TransferEvent}] :
                             sig \in {AbiSignature(event), ForeignSignature(event)}}
    /\ contract_ident = TestToken
    /\ decl = <<>>
    /\ methods = <<>>
    /\ log = <<>>
    /\ attempts = <<>>
    /\ decoded = <<>>
    /\ expanded = <<>>
    /\ data_struct = <<>>
    /\ data_tuple = <<>>

CallExpandEvent ==
    /\ expanded = <<>>
    /\ expanded' = <<ExpandEvent(Cx, event)>>
    /\ UNCHANGED <<abi_events, event_aliases, contract_ident, decl, methods, log, attempts,
                   decoded, event, data_struct, data_tuple>>

\* expand_data_struct on the triples of the event, as tests::expand_data_struct_value calls it
CallExpandDataStruct ==
    /\ data_struct = <<>>
    /\ ExpandEventInputs(event).ok
    /\ data_struct' = <<ExpandDataStruct(EventStructName(event.name, <<>>),
                                         ExpandEventInputs(event).val)>>
    /\ UNCHANGED <<abi_events, event_aliases, contract_ident, decl, methods, log, attempts,
                   decoded, event, expanded, data_tuple>>

\* expand_data_tuple on the triples of the event, as tests::expand_data_tuple_value calls it
CallExpandDataTuple ==
    /\ data_tuple = <<>>
    /\ ExpandEventInputs(event).ok
    /\ data_tuple' = <<ExpandDataTuple(EventStructName(event.name, <<>>),
                                       ExpandEventInputs(event).val)>>
    /\ UNCHANGED <<abi_events, event_aliases, contract_ident, decl, methods, log, attempts,
                   decoded, event, expanded, data_struct>>

NextEvent ==
    \/ CallExpandEvent
    \/ CallExpandDataStruct
    \/ CallExpandDataTuple

SpecEvent == InitEvent /\ [][NextEvent]_vars

-----------------------------------------------------------------------------
(* Properties *)

\* the event descriptors of the table, overloads counted one by one
Descriptors == UNION {Range(abi_events[n]) : n \in DOMAIN abi_events}

EventCount == SumLen(abi_events, DOMAIN abi_events)

DeclOk == decl # <<>> /\ decl[1].ok

DataTypes == decl[1].val.data_types

EnumDecl == decl[1].val.events_enum_decl

\* alias if one is registered under the signature, else the event's name
BaseName(e) ==
    IF AbiSignature(e) \in DOMAIN event_aliases THEN event_aliases[AbiSignature(e)] ELSE e.name

EnumName == contract_ident \o <<"E","v","e","n","t","s">>

Unmappable(e) == \E i \in 1..Len(e.inputs) : e.inputs[i].kind = Uint512

\* C1: whenever events_declaration returns output, that output holds the dispatcher
\* enum if and only if the table has more than one event descriptor, overloads of one
\* name counted one by one; with zero or one descriptor there is no enum.
C1_EnumIffMoreThanOneEvent ==
    DeclOk => /\ Len(EnumDecl) \in {0, 1}
              /\ (EnumDecl # <<>>) <=> (EventCount > 1)

\* two overloads of a single name: the enum is emitted
C1_Witness ==
    /\ DeclOk
    /\ Cardinality(DOMAIN abi_events) = 1
    /\ EventCount = 2
    /\ EnumDecl # <<>>

\* C2: expand_events_method emits no events() accessor for zero events, one typed to
\* the single event's own type (alias applied) for exactly one event, and one typed to
\* the dispatcher enum for two or more; so, when events_declaration returned output,
\* events() names the enum exactly when that output holds the enum.
C2_EventsMethodType ==
    /\ methods # <<>> =>
         LET em == methods[1].val.events_method IN
         /\ methods[1].ok
         /\ EventCount = 0 => em = <<>>
         /\ EventCount = 1 =>
              /\ Len(em) = 1
              /\ \A e \in Descriptors : em[1].ty = ToPascalCase(BaseName(e)) \o FilterSuffix
              /\ em[1].ty # EnumName
         /\ EventCount >= 2 => Len(em) = 1 /\ em[1].ty = EnumName
    /\ (methods # <<>> /\ DeclOk) =>
         LET em == methods[1].val.events_method IN
         (em # <<>> /\ em[1].ty = EnumName) <=> (EnumDecl # <<>>)

\* a single aliased event: events() is typed to the aliased event type
C2_Witness ==
    /\ methods # <<>> /\ DeclOk
    /\ EventCount = 1
    /\ event_aliases # <<>>
    /\ methods[1].val.events_method[1].ty =
         <<"T","r","a","n","s","f","e","r","E","v","e","n","t","F","i","l","t","e","r">>

\* C3: decode_log calls the variants' decoders one at a time in variant order, returns
\* the first variant whose decoder succeeds without calling a later one, and returns
\* InvalidData if and only if every decoder fails; a log that several variants accept
\* is resolved to the earliest of them.
C3_DecodeFirstMatch ==
    log # <<>> =>
      /\ \A j \in 1..Len(attempts) : attempts[j] = j
      /\ Len(attempts) <= Len(Variants)
      /\ \A j \in 1..(Len(attempts) - 1) : Variants[j] \notin log[1]
      /\ (decoded = <<>>) => \A j \in 1..Len(attempts) : Variants[j] \notin log[1]
      /\ (decoded # <<>> /\ decoded[1].ok) =>
           /\ decoded[1].val.variant = Len(attempts)
           /\ decoded[1].val.ty = Variants[Len(attempts)]
           /\ Variants[Len(attempts)] \in log[1]
           /\ \A j \in 1..Len(Variants) :
                Variants[j] \in log[1] => decoded[1].val.variant <= j
      /\ (decoded # <<>>) =>
           ((decoded[1] = Err("InvalidData")) <=> (log[1] \cap Range(Variants) = {}))
      /\ (decoded # <<>> /\ ~decoded[1].ok) => Len(attempts) = Len(Variants)

\* a log accepted by the second and the third variant only: the second is returned
C3_Witness ==
    /\ log # <<>> /\ decoded # <<>> /\ decoded[1].ok
    /\ Len(Variants) = 3
    /\ Variants[1] \notin log[1] /\ Variants[2] \in log[1] /\ Variants[3] \in log[1]
    /\ decoded[1].val.variant = 2

\* C4 as stated: the emitted data types and the enum's variants are in ascending
\* lexicographic order of the events' canonical signatures.
C4_Original_SignatureOrder ==
    DeclOk =>
      \A i, j \in 1..Len(DataTypes) : i < j => StrLeq(DataTypes[i].abi, DataTypes[j].abi)

\* C4 (amended): the emitted data types are in ascending order of the event NAME (the
\* key of the table); overloads of one name keep the order in which the table lists
\* them; the enum's variants follow the same order.
C4_NameThenDeclarationOrder ==
    DeclOk =>
      /\ \A i, j \in 1..Len(DataTypes) :
           i < j => StrLeq(DataTypes[i].name, DataTypes[j].name)
      /\ \A n \in DOMAIN abi_events :
           SelectSeq([i \in 1..Len(DataTypes) |-> DataTypes[i].abi],
                     LAMBDA sig : sig \in {AbiSignature(e) : e \in Range(abi_events[n])})
             = [k \in 1..Len(abi_events[n]) |-> AbiSignature(abi_events[n][k])]
      /\ EnumDecl # <<>> =>
           EnumDecl[1].variants =
             [i \in 1..Len(DataTypes) |-> DataTypes[i].data_type_definition.name]

\* two names, one of them with overloads listed against the order of their signatures
C4_Witness ==
    /\ DeclOk
    /\ Len(DataTypes) = 3
    /\ Cardinality(DOMAIN abi_events) = 2
    /\ EnumDecl # <<>>
    /\ \E i \in 1..2 : /\ DataTypes[i].name = DataTypes[i + 1].name
                       /\ StrLess(DataTypes[i + 1].abi, DataTypes[i].abi)

\* C5 as stated: when the aliases are pairwise distinct, the type names of the
\* contract's events (the emitted data types, the enum's variants) are pairwise
\* distinct.
C5_TypeNamesDistinct ==
    (DeclOk /\ Injective(event_aliases)) =>
      \A i, j \in 1..Len(DataTypes) :
        i # j => DataTypes[i].data_type_definition.name # DataTypes[j].data_type_definition.name

\* C6: expand_event emits a tuple-style type if and only if every input is unnamed
\* (the event with no input included), and else a struct-style type in which every
\* input, named or not, is a named field; mixed inputs always give a struct.
C6_TupleIffAllUnnamed ==
    (expanded # <<>> /\ expanded[1].ok) =>
      LET def == expanded[1].val.data_type_definition IN
      /\ def.kind \in {"tuple", "struct"}
      /\ (def.kind = "tuple") <=> (\A i \in 1..Len(event.inputs) : event.inputs[i].name = <<>>)
      /\ Len(def.fields) = Len(event.inputs)
      /\ def.kind = "tuple" => \A i \in 1..Len(def.fields) : def.fields[i].name = <<>>
      /\ def.kind = "struct" =>
           \A i \in 1..Len(def.fields) :
             /\ Len(def.fields[i].name) = 1
             /\ def.fields[i].name[1] # <<>>
             /\ event.inputs[i].name # <<>> => def.fields[i].name[1] = event.inputs[i].name

\* a named input followed by an unnamed one: a struct whose second field is p1
C6_Witness ==
    /\ expanded # <<>> /\ expanded[1].ok
    /\ Len(event.inputs) = 2
    /\ event.inputs[1].name # <<>> /\ event.inputs[2].name = <<>>
    /\ expanded[1].val.data_type_definition.kind = "struct"
    /\ expanded[1].val.data_type_definition.fields[2].name = << <<"p", "1">> >>

\* C7: for every event, expand_filter emits an accessor named snake_case(base) ++
\* "_filter" returning PascalCase(base) ++ "Filter", base being the alias registered
\* under the event's signature when there is one (the event name is then ignored) and
\* the event name otherwise; the return type is never the dispatcher enum, however
\* many events the contract has.  Transfer gives transfer_filter / TransferFilter, the
\* alias TransferEvent gives transfer_event_filter / TransferEventFilter.
C7_FilterNames ==
    methods # <<>> =>
      LET fm == methods[1].val.filter_methods
          Accessor(e) == [doc     |-> e.name,
                          fn_name |-> ToSnakeCase(BaseName(e)) \o <<"_","f","i","l","t","e","r">>,
                          ty      |-> ToPascalCase(BaseName(e)) \o <<"F","i","l","t","e","r">>]
      IN
      /\ Len(fm) = EventCount
      /\ Range(fm) = {Accessor(e) : e \in Descriptors}
      /\ \A i \in 1..Len(fm) : fm[i].ty # EnumName
      /\ \A e \in Descriptors :
           /\ BaseName(e) = Transfer =>
                [doc     |-> e.name,
                 fn_name |-> <<"t","r","a","n","s","f","e","r","_","f","i","l","t","e","r">>,
                 ty      |-> <<"T","r","a","n","s","f","e","r","F","i","l","t","e","r">>]
                  \in Range(fm)
           /\ BaseName(e) = TransferEvent =>
                [doc     |-> e.name,
                 fn_name |-> <<"t","r","a","n","s","f","e","r","_","e","v","e","n","t",
                              "_","f","i","l","t","e","r">>,
                 ty      |-> <<"T","r","a","n","s","f","e","r","E","v","e","n","t",
                              "F","i","l","t","e","r">>]
                  \in Range(fm)

\* three events, the one named Foo aliased TransferEvent: its accessor is
\* transfer_event_filter and has the aliased type
C7_Witness ==
    /\ methods # <<>>
    /\ EventCount = 3
    /\ \E e \in Descriptors : e.name = Foo /\ BaseName(e) = TransferEvent
    /\ \E i \in 1..Len(methods[1].val.filter_methods) :
         /\ methods[1].val.filter_methods[i].doc = Foo
         /\ methods[1].val.filter_methods[i].fn_name =
              <<"t","r","a","n","s","f","e","r","_","e","v","e","n","t","_","f","i","l","t","e","r">>

\* C8: if the type mapping fails for any event of the contract, events_declaration
\* returns that error and nothing else (no data type of another event, no enum); it
\* returns output only when every event was expanded.
C8_ErrorPropagates ==
    decl # <<>> =>
      /\ decl[1].ok <=> (\A e \in Descriptors : ~Unmappable(e))
      /\ ~decl[1].ok =>
           /\ DOMAIN decl[1] = {"ok", "err"}
           /\ \E e \in Descriptors : Unmappable(e) /\ decl[1] = ExpandEventInputs(e)
      /\ decl[1].ok => Len(DataTypes) = EventCount

\* three events of which one cannot be mapped: the error and nothing else is returned
C8_Witness ==
    /\ decl # <<>> /\ ~decl[1].ok
    /\ EventCount = 3
    /\ Cardinality({e \in Descriptors : Unmappable(e)}) = 1

\* C9: expand_data_struct and expand_data_tuple emit one field per parameter, in the
\* declared order, and mark field i indexed if and only if parameter i is indexed.
C9_IndexedFields ==
    LET FieldsMatch(def) ==
          /\ Len(def.fields) = Len(event.inputs)
          /\ \A i \in 1..Len(def.fields) :
               /\ def.fields[i].indexed = event.inputs[i].indexed
               /\ def.fields[i].ty = ExpandType(event.inputs[i].kind).val
    IN /\ data_struct # <<>> =>
            /\ FieldsMatch(data_struct[1])
            /\ \A i \in 1..Len(event.inputs) :
                 data_struct[1].fields[i].name = <<ExpandInputName(i - 1, event.inputs[i].name)>>
       /\ data_tuple # <<>> => FieldsMatch(data_tuple[1])

\* an indexed address followed by an unindexed number, expanded both ways
C9_Witness ==
    /\ data_struct # <<>> /\ data_tuple # <<>>
    /\ Len(event.inputs) = 2
    /\ event.inputs[1].kind = Address /\ event.inputs[1].indexed
    /\ event.inputs[2].kind = Uint256 /\ ~event.inputs[2].indexed
    /\ data_struct[1].fields[1].indexed /\ ~data_struct[1].fields[2].indexed
    /\ data_tuple[1].fields[1].indexed /\ ~data_tuple[1].fields[2].indexed

\* C10: when events_declaration returns output, it holds one data type per event
\* descriptor, event_methods emits one filter accessor per descriptor and the enum (if
\* emitted) has one variant per descriptor; the three are in the same order: the i-th
\* accessor's return type and the i-th variant are the name of the i-th data type.
C10_OnePerDescriptorSameOrder ==
    (DeclOk /\ methods # <<>>) =>
      LET fm == methods[1].val.filter_methods IN
      /\ Len(DataTypes) = EventCount
      /\ Len(fm) = EventCount
      /\ {DataTypes[i].abi : i \in 1..Len(DataTypes)} = {AbiSignature(e) : e \in Descriptors}
      /\ \A i \in 1..EventCount :
           /\ fm[i].ty = DataTypes[i].data_type_definition.name
           /\ fm[i].doc = DataTypes[i].name
      /\ EnumDecl # <<>> =>
           /\ Len(EnumDecl[1].variants) = EventCount
           /\ \A i \in 1..EventCount :
                EnumDecl[1].variants[i] = DataTypes[i].data_type_definition.name

\* three events under two names, one of them aliased, with the enum
C10_Witness ==
    /\ DeclOk /\ methods # <<>>
    /\ EventCount = 3
    /\ Cardinality(DOMAIN abi_events) = 2
    /\ event_aliases # <<>>
    /\ EnumDecl # <<>>

====
